---------------------------- MODULE Spec2Model ----------------------------
(***************************************************************************)
(* State-machine model of backend/solver.py: the cost matrix build         *)
(* (populate_cost_matrix over get_driving_time), the MILP model            *)
(* (define_tsp_model, define_constraints), the solve, and the route walk   *)
(* of reconstruct_route, as driven by solve_tsp.                           *)
(* The constraint set of define_constraints is also examined on its own,   *)
(* and so is the path model of test.py's main with its argmax route walk.  *)
(*                                                                         *)
(* Costs are minutes, kept as integers: the provider durations sampled     *)
(* are whole minutes (multiples of 60 s), so duration / 60 is exact.       *)
(* X entries are 0 or 1; "X > 0.5" is written 2 * X > 1.                   *)
(***************************************************************************)
EXTENDS Integers, Sequences, FiniteSets, TLC

VARIABLES
    layout,        \* N, BER_residence, SFO_airport, BER_airport, sf_nodes, berlin_nodes
    pc,            \* position in solve_tsp
    i, j,          \* loop indices of populate_cost_matrix
    C,             \* the cost matrix
    calls,         \* the provider lookups made so far, with the response of each
    last,          \* the kind of the provider's previous answer (environment)
    changes,       \* how often the kind of the provider's answer changed (environment)
    status,        \* prob.status
    X,             \* X.value
    value,         \* prob.value
    route,         \* reconstruct_route: route
    current_node,  \* reconstruct_route: current_node
    visited,       \* reconstruct_route: visited
    iterations,    \* reconstruct_route: iterations of the walk loop entered so far
    faults,        \* the "Error: ..." diagnostics reconstruct_route printed
    result,        \* what solve_tsp returns
    U_value,       \* U.value of a feasible point (no code reads it)
    feasible       \* whether the constraint set has a point with this X

vars == <<layout, pc, i, j, C, calls, last, changes, status, X, value,
          route, current_node, visited, iterations, faults, result, U_value, feasible>>

---------------------------------------------------------------------------
(* Bounds of the model *)

\* Nodes per index block of the scaled layout (the source's block size is 6).
Half == 2

\* Size of the X matrices handed to the route walk on its own.
WalkN == 3

\* How often the kind of the provider's answer (an estimate, an error status,
\* an exception) may change from one lookup to the next.
MaxChanges == 1

\* Number of nodes of the constraint sets whose points are enumerated.
FeasN == 4

\* Number of locations of the path model of test.py (the source has 12).
PathN == 5

---------------------------------------------------------------------------
(* Program constants *)

SENTINEL_HIGH == 1000000

PENALTY_INTERCLUSTER == 10000

penalty_weight == 10000

flight_time == 660

RealN == 12

RealSplit == 6

None == "None"

\* A matrix not there: X.value when it is None, C before initialize_cost_matrix.
NoMatrix == <<>>

OPTIMAL == "optimal"

\* The statuses other than OPTIMAL that prob.status can hold when solve returns.
NonOptimalStatuses ==
    {"optimal_inaccurate", "infeasible", "unbounded", "solver_error"}

---------------------------------------------------------------------------
(* Data definition *)

\* define_parameters and the index literals of populate_cost_matrix and
\* solve_tsp, for n locations with the lower index block holding h of them.
\* Layout(12, 6) is the program's: SFO_airport = 6, BER_airport = 11,
\* sf_nodes = range(1, 6), berlin_nodes = range(7, 11).
Layout(n, h) ==
    [N |-> n, split |-> h, BER_residence |-> 0, SFO_airport |-> h,
     BER_airport |-> n - 1, sf_nodes |-> 1 .. (h - 1),
     berlin_nodes |-> (h + 1) .. (n - 2)]

RealLayout == Layout(RealN, RealSplit)

\* The scaled layout keeps the program's shape, two index blocks of equal size
\* with the airports at the first index of the upper block and at the last
\* index, so that the feasible set of the model can be enumerated.
ScaledN == 2 * Half

ScaledLayout == Layout(ScaledN, Half)

WalkLayout == Layout(WalkN, WalkN \div 2)

Nodes == 0 .. (layout.N - 1)

\* define_locations: the city each location is in, by the comments and names
\* of the location list (0 and the last block but its first index are Berlin).
Berlin(L) == {0} \cup ((L.split + 1) .. (L.N - 1))

SanFrancisco(L) == 1 .. L.split

SameCity(L, a, b) ==
    (a \in Berlin(L) /\ b \in Berlin(L)) \/ (a \in SanFrancisco(L) /\ b \in SanFrancisco(L))

IsHubPair(L, a, b) ==
    (a = L.SFO_airport /\ b = L.BER_airport) \/ (a = L.BER_airport /\ b = L.SFO_airport)

---------------------------------------------------------------------------
(* Travel-time provider *)

\* The driving time in seconds the provider reports from a to b when it
\* answers: whole minutes, different for the two directions of a pair.
DrivingSeconds(a, b) == 60 * (5 + 3 * a + b)

\* What one gmaps.distance_matrix call can do: answer with element status OK
\* and a duration in seconds, answer with another element status, or raise.
Kinds == {"ok", "status", "exception"}

Response(kind, a, b) ==
    [kind |-> kind, duration |-> IF kind = "ok" THEN DrivingSeconds(a, b) ELSE 0]

\* No lookup made: the kind of the last answer before the first lookup, and
\* the response handed to a cell that makes none.
NoKind == "none"

GetDrivingTimeExceptionAsPenalty(resp) ==
    IF resp.kind = "ok" THEN resp.duration \div 60
    ELSE IF resp.kind = "status" THEN SENTINEL_HIGH ELSE PENALTY_INTERCLUSTER

get_driving_time(resp) ==
    IF resp.kind = "ok" THEN resp.duration \div 60 ELSE SENTINEL_HIGH

---------------------------------------------------------------------------
(* Cost matrix construction *)

initialize_cost_matrix(n) == [a \in 0 .. (n - 1) |-> [b \in 0 .. (n - 1) |-> SENTINEL_HIGH]]

CellBranchDiagonalQueried(L, a, b) ==
    IF (a < L.split /\ b < L.split) \/ (a >= L.split /\ b >= L.split) THEN "driving"
    ELSE IF (a = L.BER_residence /\ b >= L.split) \/ (a >= L.split /\ b = L.BER_residence)
        THEN "intercontinental"
    ELSE IF IsHubPair(L, a, b) THEN "flight"
    ELSE "intercontinental"

\* The branch of populate_cost_matrix's if/elif chain that cell (a, b) takes.
CellBranch(L, a, b) ==
    IF a = b THEN "diagonal"
    ELSE IF (a < L.split /\ b < L.split) \/ (a >= L.split /\ b >= L.split) THEN "driving"
    ELSE IF (a = L.BER_residence /\ b >= L.split) \/ (a >= L.split /\ b = L.BER_residence)
        THEN "intercontinental"
    ELSE IF IsHubPair(L, a, b) THEN "flight"
    ELSE "intercontinental"

\* The value stored in cell (a, b), given the provider's response when queried.
CellValue(L, a, b, resp) ==
    LET br == CellBranch(L, a, b) IN
    IF br = "diagonal" THEN SENTINEL_HIGH
    ELSE IF br = "driving" THEN get_driving_time(resp)
    ELSE IF br = "flight" THEN flight_time
    ELSE PENALTY_INTERCLUSTER

\* The provider may give an answer of kind k to the next lookup.
ProviderMay(k) ==
    \/ last = NoKind
    \/ k = last
    \/ changes < MaxChanges

\* One iteration of the inner loop of populate_cost_matrix, at cell (i, j).
PopulateStep ==
    /\ pc = "populate"
    /\ IF CellBranch(layout, i, j) = "driving"
       THEN \E k \in Kinds :
                /\ ProviderMay(k)
                /\ calls' = calls \cup {[i |-> i, j |-> j, resp |-> Response(k, i, j)]}
                /\ last' = k
                /\ changes' = IF last = NoKind \/ last = k THEN changes ELSE changes + 1
                /\ C' = [C EXCEPT ![i][j] = CellValue(layout, i, j, Response(k, i, j))]
       ELSE /\ C' = [C EXCEPT ![i][j] = CellValue(layout, i, j, Response(NoKind, i, j))]
            /\ UNCHANGED <<calls, last, changes>>
    /\ IF j + 1 < layout.N
       THEN /\ j' = j + 1
            /\ UNCHANGED <<i, pc>>
       ELSE /\ j' = 0
            /\ i' = i + 1
            /\ pc' = IF i + 1 < layout.N THEN "populate" ELSE "solve"
    /\ UNCHANGED <<U_value, feasible, iterations, layout, status, X, value, route, current_node, visited, faults, result>>

---------------------------------------------------------------------------
(* solve_tsp: start *)

ExceptionEscapes == [exception |-> "raised out of solve_tsp"]

\* What solve_tsp's "except Exception" handler returns.
ExceptionResult == [error |-> "TSP solver failed due to an exception."]

NoSolutionResult == [error |-> "No solution found."]

\* initialize_api, define_locations, define_parameters, initialize_cost_matrix.
\* Without GOOGLE_API_KEY initialize_api raises and solve_tsp returns its
\* exception result.
Initialize ==
    /\ pc = "init"
    /\ \E key_present \in BOOLEAN :
        IF key_present
        THEN /\ pc' = "populate"
             /\ C' = initialize_cost_matrix(layout.N)
             /\ UNCHANGED result
        ELSE /\ pc' = "done"
             /\ result' = ExceptionResult
             /\ UNCHANGED C
    /\ UNCHANGED <<U_value, feasible, iterations, layout, i, j, calls, last, changes, status, X, value,
                   route, current_node, visited, faults>>

InitOf(L) ==
    /\ layout = L
    /\ pc = "init"
    /\ i = 0
    /\ j = 0
    /\ C = NoMatrix
    /\ calls = {}
    /\ last = NoKind
    /\ changes = 0
    /\ status = None
    /\ X = NoMatrix
    /\ value = None
    /\ route = <<>>
    /\ current_node = 0
    /\ visited = {}
    /\ iterations = 0
    /\ faults = {}
    /\ result = None
    /\ U_value = NoMatrix
    /\ feasible = None

---------------------------------------------------------------------------
(* Optimization model *)

RECURSIVE SumTo(_, _)
\* f[0] + ... + f[k]
SumTo(f, k) == IF k < 0 THEN 0 ELSE f[k] + SumTo(f, k - 1)

\* define_tsp_model: the penalty matrix.
PenaltyMatrix(L) ==
    [a \in 0 .. (L.N - 1) |-> [b \in 0 .. (L.N - 1) |->
        IF (a \in L.sf_nodes /\ b \in L.berlin_nodes) \/ (a \in L.berlin_nodes /\ b \in L.sf_nodes)
        THEN penalty_weight ELSE 0]]

\* C + penalty_matrix
MatrixAdd(Cm, P, n) == [a \in 0 .. (n - 1) |-> [b \in 0 .. (n - 1) |-> Cm[a][b] + P[a][b]]]

\* cp.sum(cp.multiply(W, X))
SumProduct(W, Xm, n) ==
    SumTo([a \in 0 .. (n - 1) |-> SumTo([b \in 0 .. (n - 1) |-> W[a][b] * Xm[a][b]], n - 1)],
          n - 1)

\* define_tsp_model: cp.sum(cp.multiply(C + penalty_matrix, X)).
Objective(Cm, P, Xm, n) == SumProduct(MatrixAdd(Cm, P, n), Xm, n)

RowSum(Xm, a, n) == SumTo([b \in 0 .. (n - 1) |-> Xm[a][b]], n - 1)

ColSum(Xm, b, n) == SumTo([a \in 0 .. (n - 1) |-> Xm[a][b]], n - 1)

\* define_constraints, first loop: each city is entered and left exactly once.
DegreeConstraints(Xm, n) ==
    \A a \in 0 .. (n - 1) : ColSum(Xm, a, n) = 1 /\ RowSum(Xm, a, n) = 1

MTZConstraintsUpperPairs(Xm, U, n) ==
    \A a \in 1 .. (n - 1) :
        /\ U[a] >= 1
        /\ U[a] <= n - 1
        /\ \A b \in 1 .. (n - 1) : a < b => U[a] - U[b] + n * Xm[a][b] <= n - 1

MTZConstraintsTightBound(Xm, U, n) ==
    \A a \in 1 .. (n - 1) :
        /\ U[a] >= 1
        /\ U[a] <= n - 2
        /\ \A b \in 1 .. (n - 1) : a # b => U[a] - U[b] + n * Xm[a][b] <= n - 1

\* define_constraints, second loop: the MTZ subtour elimination constraints.
MTZConstraints(Xm, U, n) ==
    \A a \in 1 .. (n - 1) :
        /\ U[a] >= 1
        /\ U[a] <= n - 1
        /\ \A b \in 1 .. (n - 1) : a # b => U[a] - U[b] + n * Xm[a][b] <= n - 1

\* define_constraints: every constraint it emits holds of (X, U).
define_constraints(Xm, U, n) ==
    DegreeConstraints(Xm, n) /\ MTZConstraints(Xm, U, n)

\* The 0/1 matrices with exactly one 1 in every row and in every column,
\* listed by the column of each row's 1: the only boolean X that can meet
\* the degree constraints.
PermutationMatrices(n) ==
    {[a \in 0 .. (n - 1) |-> [b \in 0 .. (n - 1) |-> IF s[a] = b THEN 1 ELSE 0]] :
        s \in {t \in [0 .. (n - 1) -> 0 .. (n - 1)] :
                 \A a, b \in 0 .. (n - 1) : a # b => t[a] # t[b]}}

\* The values U can take under its bounds; U[0] occurs in no constraint.
UCandidates(n) ==
    {[a \in 0 .. (n - 1) |-> IF a = 0 THEN 0 ELSE w[a]] : w \in [1 .. (n - 1) -> 1 .. (n - 1)]}

RECURSIVE ExistsU(_, _, _, _)
\* Whether U, fixed on 1 .. k - 1, extends to all of 1 .. n - 1 so that the MTZ
\* constraints hold: the value of U[k] is tried against the bounds on U[k] and
\* against the constraints of the pairs (a, k) and (k, a), a < k.
ExistsU(Xm, n, U, k) ==
    IF k = n THEN TRUE
    ELSE \E v \in 1 .. (n - 1) :
            /\ \A a \in 1 .. (k - 1) :
                /\ U[a] - v + n * Xm[a][k] <= n - 1
                /\ v - U[a] + n * Xm[k][a] <= n - 1
            /\ ExistsU(Xm, n, [U EXCEPT ![k] = v], k + 1)

MTZDroppedSatisfiable(Xm, n) == TRUE

\* Some U meets the MTZ constraints of define_constraints together with Xm:
\* \E U \in UCandidates(n) : MTZConstraints(Xm, U, n), found by search.
MTZSatisfiable(Xm, n) == ExistsU(Xm, n, [a \in 0 .. (n - 1) |-> 0], 1)

\* The X of the feasible points (X, U) of the model over n nodes.
FeasibleXOf(n) ==
    {Xm \in PermutationMatrices(n) : DegreeConstraints(Xm, n) /\ MTZSatisfiable(Xm, n)}

\* The X of the feasible points of the scaled model.
FeasibleX == FeasibleXOf(ScaledN)

SetMin(S) == CHOOSE m \in S : \A k \in S : m <= k

\* solve_tsp_problem with status OPTIMAL: the feasible X of least objective.
\* The members of F that minimise cp.sum(cp.multiply(W, X)).
ArgMin(F, W, n) ==
    LET cost == [Y \in F |-> SumProduct(W, Y, n)]
        best == SetMin({cost[Y] : Y \in F})
    IN  {Xm \in F : cost[Xm] = best}

OptimalX(Cm, P) == ArgMin(FeasibleX, MatrixAdd(Cm, P, ScaledN), ScaledN)

\* prob.solve returns with status OPTIMAL and the solution in X.value.
SolveOptimal ==
    /\ pc = "solve"
    /\ \E Xm \in OptimalX(C, PenaltyMatrix(layout)) :
        /\ X' = Xm
        /\ value' = Objective(C, PenaltyMatrix(layout), Xm, layout.N)
    /\ status' = OPTIMAL
    /\ pc' = "reconstruct"
    /\ UNCHANGED <<U_value, feasible, iterations, layout, i, j, C, calls, last, changes, route, current_node,
                   visited, faults, result>>

\* prob.solve returns with status OPTIMAL but X.value unset (the case
\* reconstruct_route tests for).
SolveOptimalNoValue ==
    /\ pc = "solve"
    /\ status' = OPTIMAL
    /\ X' = NoMatrix
    /\ value' = None
    /\ pc' = "reconstruct"
    /\ UNCHANGED <<U_value, feasible, iterations, layout, i, j, C, calls, last, changes, route, current_node,
                   visited, faults, result>>

\* prob.solve returns with another status.
SolveNonOptimal ==
    /\ pc = "solve"
    /\ \E s \in NonOptimalStatuses : status' = s
    /\ X' = NoMatrix
    /\ value' = None
    /\ pc' = "reconstruct"
    /\ UNCHANGED <<U_value, feasible, iterations, layout, i, j, C, calls, last, changes, route, current_node,
                   visited, faults, result>>

\* prob.solve raises; solve_tsp's handler returns the exception result.
SolveRaises ==
    /\ pc = "solve"
    /\ result' = ExceptionResult
    /\ pc' = "done"
    /\ UNCHANGED <<U_value, feasible, iterations, layout, i, j, C, calls, last, changes, status, X, value,
                   route, current_node, visited, faults>>

---------------------------------------------------------------------------
(* Route reconstruction *)

RECURSIVE SortedSeq(_)
\* The members of a set of numbers, ascending.
SortedSeq(S) ==
    IF S = {} THEN <<>> ELSE LET m == SetMin(S) IN <<m>> \o SortedSeq(S \ {m})

RECURSIVE Reverse(_)
Reverse(s) == IF s = <<>> THEN <<>> ELSE Reverse(Tail(s)) \o <<Head(s)>>

NpWhereDescending(Xm, a, n) == Reverse(SortedSeq({b \in 0 .. (n - 1) : 2 * Xm[a][b] > 1}))

\* np.where(X_val[a] > 0.5)[0]: the indices above the threshold, ascending.
NpWhere(Xm, a, n) == SortedSeq({b \in 0 .. (n - 1) : 2 * Xm[a][b] > 1})

WalkContinuesOneShort(len, n) == len < n - 1

WalkContinuesOneMore(len, n) == len <= n

\* The loop test "while len(route) < N".
WalkContinues(len, n) == len < n

\* The result of reconstruct_route's else branch, taken by every status other
\* than OPTIMAL.
NonOptimalResult(s) == NoSolutionResult

\* reconstruct_route up to the start of the walk.
ReconstructStart ==
    /\ pc = "reconstruct"
    /\ IF status = OPTIMAL
       THEN IF X = NoMatrix
            THEN \* route is never bound: the segment loop raises NameError,
                 \* which solve_tsp's handler turns into the exception result.
                 /\ result' = ExceptionResult
                 /\ pc' = "done"
                 /\ UNCHANGED <<route, current_node, visited>>
            ELSE /\ route' = <<layout.BER_residence>>
                 /\ current_node' = layout.BER_residence
                 /\ visited' = {layout.BER_residence}
                 /\ pc' = "walk"
                 /\ UNCHANGED result
       ELSE /\ result' = NonOptimalResult(status)
            /\ pc' = "done"
            /\ UNCHANGED <<route, current_node, visited>>
    /\ UNCHANGED <<U_value, feasible, iterations, layout, i, j, C, calls, last, changes, status, X, value, faults>>

\* One iteration of the body of "while len(route) < N"; a break leaves the loop.
WalkStep ==
    /\ pc = "walk"
    /\ WalkContinues(Len(route), layout.N)
    /\ LET next_nodes == NpWhere(X, current_node, layout.N) IN
       IF Len(next_nodes) = 0
       THEN /\ faults' = faults \cup {"broken_path"}
            /\ pc' = "close"
            /\ UNCHANGED <<route, current_node, visited>>
       ELSE LET next_node == next_nodes[1] IN
            IF next_node \in visited
            THEN /\ faults' = faults \cup {"premature_cycle"}
                 /\ pc' = "close"
                 /\ UNCHANGED <<route, current_node, visited>>
            ELSE /\ route' = Append(route, next_node)
                 /\ visited' = visited \cup {next_node}
                 /\ current_node' = next_node
                 /\ UNCHANGED <<faults, pc>>
    /\ iterations' = iterations + 1
    /\ UNCHANGED <<U_value, feasible, layout, i, j, C, calls, last, changes, status, X, value, result>>

\* "Ensure the route returns to Berlin Residence".
CloseRoute ==
    /\ pc = "close" \/ (pc = "walk" /\ ~WalkContinues(Len(route), layout.N))
    /\ IF 2 * X[current_node][layout.BER_residence] > 1
       THEN /\ route' = Append(route, layout.BER_residence)
            /\ UNCHANGED faults
       ELSE /\ faults' = faults \cup {"no_return"}
            /\ UNCHANGED route
    /\ pc' = "segments"
    /\ UNCHANGED <<U_value, feasible, iterations, layout, i, j, C, calls, last, changes, status, X, value,
                   current_node, visited, result>>

\* locations[idx]
LocationName(idx) == <<"location", idx>>

\* The flight segments' share of the totals: C over the hub-pair edges of r.
FlightTimeTotal(r, Cm, L) ==
    SumTo([k \in 0 .. (Len(r) - 2) |->
              IF IsHubPair(L, r[k + 1], r[k + 2]) THEN Cm[r[k + 1]][r[k + 2]] ELSE 0],
          Len(r) - 2)

\* The segment loop and tsp_result. The driving totals and the directions
\* come from the directions provider and are left out of the record.
BuildResult ==
    /\ pc = "segments"
    /\ result' = [route_names |-> [k \in 1 .. Len(route) |-> LocationName(route[k])],
                  route_indices |-> route,
                  flight_time_total_minutes |-> FlightTimeTotal(route, C, layout),
                  SFO_airport_idx |-> layout.SFO_airport,
                  BER_airport_idx |-> layout.BER_airport]
    /\ pc' = "done"
    /\ UNCHANGED <<U_value, feasible, iterations, layout, i, j, C, calls, last, changes, status, X, value,
                   route, current_node, visited, faults>>

\* The segment loop raises on a directions step it cannot read (a step
\* without "html_instructions"); solve_tsp's handler returns the exception
\* result.
BuildRaises ==
    /\ pc = "segments"
    /\ result' = ExceptionResult
    /\ pc' = "done"
    /\ UNCHANGED <<U_value, feasible, iterations, layout, i, j, C, calls, last, changes,
                   status, X, value, route, current_node, visited, faults>>

---------------------------------------------------------------------------
(* Specifications *)

\* solve_tsp on the scaled layout.
Init == InitOf(ScaledLayout)

Next ==
    \/ Initialize
    \/ PopulateStep
    \/ SolveOptimal
    \/ SolveOptimalNoValue
    \/ SolveNonOptimal
    \/ SolveRaises
    \/ ReconstructStart
    \/ WalkStep
    \/ CloseRoute
    \/ BuildResult
    \/ BuildRaises

Spec == Init /\ [][Next]_vars

\* populate_cost_matrix on the program's own layout.
InitCost == InitOf(RealLayout)

NextCost == Initialize \/ PopulateStep

SpecCost == InitCost /\ [][NextCost]_vars

\* reconstruct_route on any 0/1 matrix X reported with status OPTIMAL.
InitWalk ==
    /\ layout = WalkLayout
    /\ pc = "reconstruct"
    /\ i = WalkN
    /\ j = 0
    /\ C = initialize_cost_matrix(WalkN)
    /\ calls = {}
    /\ last = NoKind
    /\ changes = 0
    /\ status = OPTIMAL
    /\ X \in [0 .. (WalkN - 1) -> [0 .. (WalkN - 1) -> {0, 1}]]
    /\ value = None
    /\ route = <<>>
    /\ current_node = 0
    /\ visited = {}
    /\ iterations = 0
    /\ faults = {}
    /\ result = None
    /\ U_value = NoMatrix
    /\ feasible = None

NextWalk == ReconstructStart \/ WalkStep \/ CloseRoute \/ BuildResult \/ BuildRaises

SpecWalk == InitWalk /\ [][NextWalk]_vars

---------------------------------------------------------------------------
(* The constraint set of define_constraints on its own *)

FeasLayout == Layout(FeasN, FeasN \div 2)

\* Values of the boolean variable X = cp.Variable((N, N), boolean=True) with
\* one entry set in every row, self-loops and shared columns included.
RowChoiceMatrices(n) ==
    {[a \in 0 .. (n - 1) |-> [b \in 0 .. (n - 1) |-> IF s[a] = b THEN 1 ELSE 0]] :
        s \in [0 .. (n - 1) -> 0 .. (n - 1)]}

\* The U that make (Xm, U) meet every constraint define_constraints emits.
FeasibleU(Xm, n) == {Uc \in UCandidates(n) : define_constraints(Xm, Uc, n)}

\* The solver's search for a point of the constraint set with the given X:
\* any U that meets the constraints, or the verdict that there is none.
FindFeasible ==
    /\ pc = "constraints"
    /\ LET F == FeasibleU(X, layout.N) IN
       IF F = {}
       THEN /\ feasible' = FALSE
            /\ UNCHANGED U_value
       ELSE /\ feasible' = TRUE
            /\ \E Uc \in F : U_value' = Uc
    /\ pc' = "checked"
    /\ UNCHANGED <<iterations, layout, i, j, C, calls, last, changes, status, X, value,
                   route, current_node, visited, faults, result>>

InitFeas ==
    /\ layout = FeasLayout
    /\ pc = "constraints"
    /\ i = 0
    /\ j = 0
    /\ C = NoMatrix
    /\ calls = {}
    /\ last = NoKind
    /\ changes = 0
    /\ status = None
    /\ X \in RowChoiceMatrices(FeasN)
    /\ value = None
    /\ route = <<>>
    /\ current_node = 0
    /\ visited = {}
    /\ iterations = 0
    /\ faults = {}
    /\ result = None
    /\ U_value = NoMatrix
    /\ feasible = None

NextFeas == FindFeasible

SpecFeas == InitFeas /\ [][NextFeas]_vars

---------------------------------------------------------------------------
(* test.py: the path model of main and its route walk *)

\* The index literals of main for n locations; TestLayout(12) is the
\* program's: SFO_airport = 5, BER_airport = 11, sf_indices = range(5),
\* berlin_indices = range(6, 11).
TestLayout(n) ==
    [N |-> n, SFO_airport |-> n \div 2 - 1, BER_airport |-> n - 1,
     sf_indices |-> 0 .. (n \div 2 - 2), berlin_indices |-> (n \div 2) .. (n - 2)]

PathLayout == TestLayout(PathN)

\* "Soft constraint": single entries of a boolean X bounded by 1.
SoftConstraints(Xm, L) ==
    /\ \A sf_loc \in L.sf_indices : Xm[sf_loc][L.SFO_airport] <= 1
    /\ \A berlin_loc \in L.berlin_indices : Xm[berlin_loc][L.BER_airport] <= 1

\* "Degree Constraints": node 0 is left and never entered, BER_airport is
\* entered and never left, every other node is entered and left once.
PathDegreeConstraints(Xm, L) ==
    \A a \in 0 .. (L.N - 1) :
        IF a = 0 THEN RowSum(Xm, a, L.N) = 1 /\ ColSum(Xm, a, L.N) = 0
        ELSE IF a = L.BER_airport THEN RowSum(Xm, a, L.N) = 0 /\ ColSum(Xm, a, L.N) = 1
        ELSE RowSum(Xm, a, L.N) = 1 /\ ColSum(Xm, a, L.N) = 1

\* "Flight Constraint"
FlightConstraint(Xm, L) == Xm[L.SFO_airport][L.BER_airport] = 1

\* "No Self-Loops"
NoSelfLoops(Xm, L) == \A a \in 0 .. (L.N - 1) : Xm[a][a] = 0

PathMTZBoundsOnly(Xm, U, L) ==
    /\ U[0] = 0
    /\ \A a \in 1 .. (L.N - 1) : U[a] >= 1 /\ U[a] <= L.N - 1

\* "MTZ Subtour Elimination Constraints"
PathMTZConstraints(Xm, U, L) ==
    /\ U[0] = 0
    /\ \A a \in 1 .. (L.N - 1) : U[a] >= 1 /\ U[a] <= L.N - 1
    /\ \A a, b \in 0 .. (L.N - 1) :
        (a # b /\ b # 0) => U[b] >= U[a] + 1 - L.N * (1 - Xm[a][b])

\* The constraints of main that mention X only.
PathXConstraints(Xm, L) ==
    /\ SoftConstraints(Xm, L)
    /\ PathDegreeConstraints(Xm, L)
    /\ FlightConstraint(Xm, L)
    /\ NoSelfLoops(Xm, L)

\* Every constraint main hands to cp.Problem holds of (Xm, U).
main_constraints(Xm, U, L) == PathXConstraints(Xm, L) /\ PathMTZConstraints(Xm, U, L)

\* The U that make (Xm, U) feasible: U is searched only for an X that meets
\* the constraints on X alone.
PathFeasibleU(Xm, L) ==
    {Uc \in (IF PathXConstraints(Xm, L) THEN UCandidates(L.N) ELSE {}) :
        main_constraints(Xm, Uc, L)}

\* Values of the boolean variable X with at most one entry set in a row.
RowAtMostOneMatrices(n) ==
    {[a \in 0 .. (n - 1) |-> [b \in 0 .. (n - 1) |-> IF s[a] = b THEN 1 ELSE 0]] :
        s \in [0 .. (n - 1) -> 0 .. n]}

\* np.argmax(row): the first index that holds the largest entry.
ArgMax(row, n) ==
    CHOOSE b \in 0 .. (n - 1) :
        /\ \A c \in 0 .. (n - 1) : row[c] <= row[b]
        /\ \A c \in 0 .. (b - 1) : row[c] < row[b]

\* prob.solve for the given X: the X is a solution when some U makes it
\* feasible, and the walk starts from node 0; no other X is ever walked.
SolvePath ==
    /\ pc = "path_solve"
    /\ LET F == PathFeasibleU(X, layout) IN
       IF F = {}
       THEN /\ feasible' = FALSE
            /\ pc' = "path_done"
            /\ UNCHANGED <<U_value, route, current_node, visited>>
       ELSE /\ feasible' = TRUE
            /\ \E Uc \in F : U_value' = Uc
            /\ route' = <<0>>
            /\ current_node' = 0
            /\ visited' = {0}
            /\ pc' = "path_walk"
    /\ UNCHANGED <<iterations, layout, i, j, C, calls, last, changes, status, X, value,
                   faults, result>>

\* One iteration of the "while True" loop of main's route walk.
PathWalkStep ==
    /\ pc = "path_walk"
    /\ LET next_dest == ArgMax(X[current_node], layout.N) IN
       IF 2 * X[current_node][next_dest] < 1
       THEN /\ faults' = faults \cup {"no_valid_route"}
            /\ pc' = "path_done"
            /\ UNCHANGED <<route, current_node, visited>>
       ELSE /\ route' = Append(route, next_dest)
            /\ current_node' = next_dest
            /\ IF next_dest = layout.BER_airport
               THEN /\ pc' = "path_done"
                    /\ UNCHANGED <<faults, visited>>
               ELSE IF next_dest \in visited
               THEN /\ faults' = faults \cup {"cycle_detected"}
                    /\ pc' = "path_done"
                    /\ UNCHANGED visited
               ELSE /\ visited' = visited \cup {next_dest}
                    /\ UNCHANGED <<faults, pc>>
    /\ UNCHANGED <<U_value, feasible, iterations, layout, i, j, C, calls, last, changes,
                   status, X, value, result>>

InitPath ==
    /\ layout = PathLayout
    /\ pc = "path_solve"
    /\ i = 0
    /\ j = 0
    /\ C = NoMatrix
    /\ calls = {}
    /\ last = NoKind
    /\ changes = 0
    /\ status = None
    /\ X \in RowAtMostOneMatrices(PathN)
    /\ value = None
    /\ route = <<>>
    /\ current_node = 0
    /\ visited = {}
    /\ iterations = 0
    /\ faults = {}
    /\ result = None
    /\ U_value = NoMatrix
    /\ feasible = None

NextPath == SolvePath \/ PathWalkStep

SpecPath == InitPath /\ [][NextPath]_vars

---------------------------------------------------------------------------
(* Properties *)

\* solve_tsp returned reconstruct_route's route for an OPTIMAL solve with X set.
RouteReturned ==
    /\ pc = "done"
    /\ status = OPTIMAL
    /\ X # NoMatrix
    /\ "route_indices" \in DOMAIN result

\* How often node k occurs in the sequence r.
Occurrences(r, k) == Cardinality({p \in 1 .. Len(r) : r[p] = k})

\* The lookup c got no estimate: an error status or an exception.
Failed(c) == c.resp.kind # "ok"

\* C1: whatever the provider answered, the route returned for an OPTIMAL solve
\* has N + 1 entries, starts and ends at node 0, and holds every other node
\* exactly once.
C1_TourVisitsEveryNode ==
    RouteReturned =>
        /\ faults = {}
        /\ LET r == result.route_indices IN
            /\ Len(r) = layout.N + 1
            /\ r[1] = 0
            /\ r[Len(r)] = 0
            /\ Occurrences(r, 0) = 2
            /\ \A k \in 1 .. (layout.N - 1) : Occurrences(r, k) = 1

\* A tour was returned although every lookup inside the lower index block failed.
C1_Witness ==
    /\ RouteReturned
    /\ Len(result.route_indices) = layout.N + 1
    /\ \A c \in calls : (c.i < layout.split) => Failed(c)
    /\ \E c \in calls : ~Failed(c)

\* C2: a walk that hit a reconstruction fault (broken path, premature cycle,
\* no edge back to the start) returns a result with an "error" key and no route.
C2_FaultReturnsError ==
    (pc = "done" /\ faults # {}) =>
        /\ "error" \in DOMAIN result
        /\ "route_indices" \notin DOMAIN result
        /\ "route_names" \notin DOMAIN result

\* C3: after populate_cost_matrix both directions of the hub pair carry
\* flight_time, and the provider was not asked about the hub pair.
C3_HubPairCarriesFlightTime ==
    pc = "solve" =>
        /\ C[layout.SFO_airport][layout.BER_airport] = flight_time
        /\ C[layout.BER_airport][layout.SFO_airport] = flight_time
        /\ \A c \in calls : ~IsHubPair(layout, c.i, c.j)

\* C4: every ordered pair of locations in different cities, other than the hub
\* pair, has C + Penalty of at least PENALTY_INTERCLUSTER.
C4_CrossCityWeightAtLeastPenalty ==
    pc = "solve" =>
        \A a, b \in Nodes :
            (~SameCity(layout, a, b) /\ ~IsHubPair(layout, a, b)) =>
                C[a][b] + PenaltyMatrix(layout)[a][b] >= PENALTY_INTERCLUSTER

\* C5: every ordered pair of distinct locations in the same city was looked up
\* and its cell holds the provider's estimate in minutes, or SENTINEL_HIGH when
\* the lookup failed; none holds the fixed inter-cluster cost.
C5_SameCityPairsLookedUp ==
    pc = "solve" =>
        \A a, b \in Nodes :
            (a # b /\ SameCity(layout, a, b)) =>
                \E c \in calls :
                    /\ c.i = a
                    /\ c.j = b
                    /\ C[a][b] = IF Failed(c) THEN SENTINEL_HIGH ELSE c.resp.duration \div 60

RECURSIVE RouteCost(_, _, _)
\* The sum of C + Penalty over the consecutive entries of r.
RouteCost(r, Cm, P) ==
    IF Len(r) < 2 THEN 0
    ELSE Cm[r[1]][r[2]] + P[r[1]][r[2]] + RouteCost(Tail(r), Cm, P)

ErrorStatuses == {"optimal_inaccurate", "solver_error"}

\* C7: a solve that ended with a solver error status returns a result other
\* than the one returned for status INFEASIBLE.
C7_ErrorDistinctFromInfeasible ==
    (pc = "done" /\ status \in ErrorStatuses) =>
        result # NonOptimalResult("infeasible")

\* C8: a failed lookup never ends the build: every cell looked up holds the
\* estimate in minutes if its own lookup succeeded and SENTINEL_HIGH if it
\* failed, and once the build is left every driving pair has been looked up.
C8_LookupFailureAbsorbed ==
    /\ \A c \in calls :
        C[c.i][c.j] = IF Failed(c) THEN SENTINEL_HIGH ELSE c.resp.duration \div 60
    /\ (pc # "populate" /\ C # NoMatrix) =>
        /\ i = layout.N
        /\ \A a, b \in Nodes :
            CellBranch(layout, a, b) = "driving" =>
                \E c \in calls : c.i = a /\ c.j = b

\* The build ran to its end with a lookup that raised, one that answered with
\* an error status, and one that succeeded.
C8_Witness ==
    /\ pc = "solve"
    /\ i = layout.N
    /\ \E c \in calls : c.resp.kind = "exception"
    /\ \E c \in calls : c.resp.kind = "ok" /\ C[c.i][c.j] = c.resp.duration \div 60

\* C9: the diagonal of the cost matrix is SENTINEL_HIGH and the provider is
\* never asked about a pair (i, i).
C9_DiagonalSentinel ==
    (C # NoMatrix) =>
        /\ \A a \in Nodes : C[a][a] = SENTINEL_HIGH
        /\ \A c \in calls : c.i # c.j

\* The build ran to its end with lookups that succeeded and lookups that failed.
C9_Witness ==
    /\ pc = "solve"
    /\ \E c \in calls : Failed(c)
    /\ \E c \in calls : ~Failed(c)
    /\ \A a \in Nodes : C[a][a] = SENTINEL_HIGH

\* The entries of row a of X above the threshold.
Candidates(a) == {b \in Nodes : 2 * X[a][b] > 1}

\* C10: every node the walk appended is the lowest-index entry above the
\* threshold in the row of the node before it.
C10_LowestIndexChosen ==
    (pc \in {"walk", "close"}) =>
        \A k \in 1 .. (Len(route) - 1) :
            /\ route[k + 1] \in Candidates(route[k])
            /\ \A b \in Candidates(route[k]) : route[k + 1] <= b

\* The walk left a row with several entries above the threshold.
C10_Witness ==
    /\ pc \in {"walk", "close"}
    /\ \E k \in 1 .. (Len(route) - 1) :
        /\ Cardinality(Candidates(route[k])) > 1
        /\ \A b \in Candidates(route[k]) : route[k + 1] <= b

RECURSIVE Reach(_, _, _)
\* The nodes reached from the nodes of S along the selected edges of Xm.
Reach(Xm, n, S) ==
    LET T == S \cup {b \in 0 .. (n - 1) : \E a \in S : Xm[a][b] = 1}
    IN  IF T = S THEN S ELSE Reach(Xm, n, T)

\* The selected edges of Xm form one directed cycle through all n nodes.
SingleCycle(Xm, n) ==
    /\ DegreeConstraints(Xm, n)
    /\ Reach(Xm, n, {0}) = 0 .. (n - 1)

\* A point of the constraint set was found for X.
PointFound == pc = "checked" /\ feasible = TRUE

\* C11 (as stated): every point of the constraint set of define_constraints
\* has a zero diagonal and selected edges forming one cycle through all nodes.
C11_NoSelfLoopNoSubtour ==
    PointFound =>
        /\ \A a \in Nodes : X[a][a] = 0
        /\ SingleCycle(X, layout.N)

\* C11 (amended): every point of the constraint set is a permutation whose
\* nodes each lie on the cycle through node 0 or carry a self-loop, so a
\* point with a zero diagonal is one cycle through all nodes, and no point
\* has a cycle of two or more nodes that avoids node 0.
C11_OnlyStartCycleAndSelfLoops ==
    PointFound =>
        /\ define_constraints(X, U_value, layout.N)
        /\ \A a \in Nodes : a \in Reach(X, layout.N, {0}) \/ X[a][a] = 1
        /\ (\A a \in Nodes : X[a][a] = 0) => SingleCycle(X, layout.N)

\* A point was found whose X has a cycle of several nodes through node 0 and
\* a self-loop on a node outside it.
C11_Witness ==
    /\ PointFound
    /\ Cardinality(Reach(X, layout.N, {0})) >= 2
    /\ \E a \in Nodes : X[a][a] = 1 /\ a \notin Reach(X, layout.N, {0})

\* C12: for every X that is one directed cycle through all nodes the
\* constraint set has a point: some U meets every constraint with it.
C12_EveryTourFeasible ==
    (pc = "checked" /\ SingleCycle(X, layout.N)) =>
        /\ feasible = TRUE
        /\ define_constraints(X, U_value, layout.N)

\* A point was found for a tour, with U ranking the nodes 1 .. N - 1 in the
\* order the tour visits them.
C12_Witness ==
    /\ PointFound
    /\ SingleCycle(X, layout.N)
    /\ \A a, b \in 1 .. (layout.N - 1) : X[a][b] = 1 => U_value[b] = U_value[a] + 1

\* The walk of test.py ran to its end on a feasible X.
PathWalked == pc = "path_done" /\ feasible = TRUE

\* The positions of route that hold a and are followed by b.
EdgePositions(r, a, b) == {k \in 1 .. (Len(r) - 1) : r[k] = a /\ r[k + 1] = b}

\* C13: in the path model of test.py the walk over a feasible X ends at
\* BER_airport, holds every node exactly once, takes the forced edge
\* SFO_airport -> BER_airport once, as its last edge, and never the reverse.
C13_PathEndsAtBerViaFlight ==
    PathWalked =>
        /\ route[1] = 0
        /\ route[Len(route)] = layout.BER_airport
        /\ \A k \in Nodes : Occurrences(route, k) = 1
        /\ EdgePositions(route, layout.SFO_airport, layout.BER_airport) = {Len(route) - 1}
        /\ EdgePositions(route, layout.BER_airport, layout.SFO_airport) = {}

\* The walk ended at BER_airport on a feasible X that does not visit the
\* nodes in index order.
C13_Witness ==
    /\ PathWalked
    /\ Len(route) = layout.N
    /\ route[Len(route)] = layout.BER_airport
    /\ \E k \in 1 .. (Len(route) - 1) : route[k] > route[k + 1]

\* C14: the walk loop of reconstruct_route is entered at most N - 1 times,
\* whatever X holds, and no node occurs twice in the route it leaves, except
\* node 0, which may occur once more as the last entry.
C14_WalkBounded ==
    (pc \in {"walk", "close", "segments"}) =>
        /\ iterations <= layout.N - 1
        /\ \A k \in Nodes \ {layout.BER_residence} : Occurrences(route, k) <= 1
        /\ Occurrences(route, layout.BER_residence) <= 2
        /\ Occurrences(route, layout.BER_residence) = 2 =>
                route[Len(route)] = layout.BER_residence

\* The loop was entered N - 1 times, the last time breaking off at a node
\* already visited, and the route was closed with the start node.
C14_Witness ==
    /\ pc = "segments"
    /\ iterations = layout.N - 1
    /\ "premature_cycle" \in faults
    /\ Len(route) >= 2
    /\ route[Len(route)] = layout.BER_residence

\* The fields of a result that describe a route.
RouteFields == {"route_names", "route_indices"}

\* C15: solve_tsp returns a result that has "error" and no route field, or
\* route_indices and no "error"; an OPTIMAL solve without X.value and every
\* solve with another status return an "error" result.
C15_ErrorOrRoute ==
    pc = "done" =>
        /\ \/ "error" \in DOMAIN result /\ DOMAIN result \cap RouteFields = {}
           \/ "route_indices" \in DOMAIN result /\ "error" \notin DOMAIN result
        /\ (status = OPTIMAL /\ X = NoMatrix) => "error" \in DOMAIN result
        /\ status \in NonOptimalStatuses => "error" \in DOMAIN result

\* An OPTIMAL solve without X.value returned the handler's error result.
C15_Witness ==
    /\ pc = "done"
    /\ status = OPTIMAL
    /\ X = NoMatrix
    /\ result = ExceptionResult

=============================================================================
